---------------------------- MODULE Spec2Model ----------------------------
(***************************************************************************)
(* mouseless: the layer/binding interpreter (handleKey, executeBinding,    *)
(* loadConfig) and the main loop with its mouse motion driver.             *)
(*                                                                         *)
(* One main-loop iteration is one action: the select on the output channel *)
(* of the tap-hold handler or on the mouse timer, handleKey for a received *)
(* event, then the mouse section that calls Scroll/Move and re-arms the    *)
(* timer.  Layers are pointers: a layer value is the pair of the config    *)
(* load that created it and its index in that config, so a layer of an     *)
(* earlier load is a different object than the same-named layer of the     *)
(* current load.                                                           *)
(***************************************************************************)
EXTENDS Integers, Sequences, FiniteSets, TLC

(* ------------------------------ bounds -------------------------------- *)
\* number of successful ReloadConfig executions explored
MaxReloads == 1
\* capacity explored for the tap-hold handler's output channel
MaxQueue == 1
\* number of acceleration steps of the virtual mouse's velocity explored
MaxVelocity == 1
\* readKeyboard tasks explored that have set the state and not yet returned
MaxReturning == 1

\* failed opens in a row explored before an open succeeds
MaxOpenFailures == 2
\* number of input events explored for one device
MaxReads == 2

(* ----------------------------- constants ------------------------------ *)
KEY_ESC == 1
WildcardKey == 0
EV_KEY == 1

\* DeviceState
StateNotOpen == "NotOpen"
StateOpenFailed == "OpenFailed"
StateOpen == "Open"

\* the physical key codes the keyboards produce in this model
Keys == {1, 44, 58, 59}

(* ----------------------------- bindings ------------------------------- *)
NoBinding == [type |-> "nil"]
KeyBinding(combo) == [type |-> "Key", KeyCombo |-> combo]
ButtonBinding(b) == [type |-> "Button", Button |-> b]
MoveBinding(x, y) == [type |-> "Move", X |-> x, Y |-> y]
ScrollBinding(x, y) == [type |-> "Scroll", X |-> x, Y |-> y]
SpeedBinding(f) == [type |-> "Speed", Speed |-> f]
LayerBinding(name) == [type |-> "Layer", Layer |-> name]
ToggleLayerBinding(name) == [type |-> "ToggleLayer", Layer |-> name]
TapHoldBinding(tap, hold) == [type |-> "TapHold", TapBinding |-> tap, HoldBinding |-> hold]
MultiBinding(bs) == [type |-> "Multi", Bindings |-> bs]
ReloadConfigBinding == [type |-> "ReloadConfig"]
ExecBinding(cmd) == [type |-> "Exec", Command |-> cmd]

(* ------------------------- configuration files ------------------------ *)
\* The contents the configuration file can have when it is read.  File A is
\* the file at start-up; B is an edited file with fewer layers.
FileA ==
  << [Name |-> "L0", PassThrough |-> TRUE, WildcardBinding |-> NoBinding,
      Bindings |-> (58 :> ToggleLayerBinding("L1")
                 @@ 44 :> TapHoldBinding(KeyBinding(<<30>>), LayerBinding("nav"))
                 @@ 59 :> MultiBinding(<<ToggleLayerBinding("L1"), ToggleLayerBinding("L2")>>))],
     [Name |-> "L1", PassThrough |-> FALSE,
      WildcardBinding |-> KeyBinding(<<42, WildcardKey>>),
      Bindings |-> (59 :> ToggleLayerBinding("L2")
                 @@ 44 :> LayerBinding("nosuch"))],
     [Name |-> "L2", PassThrough |-> TRUE, WildcardBinding |-> NoBinding,
      Bindings |-> (44 :> ReloadConfigBinding
                 @@ 58 :> LayerBinding("L1"))],
     [Name |-> "nav", PassThrough |-> FALSE, WildcardBinding |-> NoBinding,
      Bindings |-> (44 :> MoveBinding(1, 0)
                 @@ 58 :> MoveBinding(-1, 0)
                 @@ 59 :> ScrollBinding(0, 1))] >>

FileB ==
  << [Name |-> "L0", PassThrough |-> FALSE,
      WildcardBinding |-> KeyBinding(<<29, WildcardKey>>),
      Bindings |-> (58 :> ToggleLayerBinding("L1")
                 @@ 44 :> LayerBinding("nav"))],
     [Name |-> "nav", PassThrough |-> TRUE, WildcardBinding |-> MoveBinding(0, 1),
      Bindings |-> (44 :> TapHoldBinding(MoveBinding(1, 0), ExecBinding("notify"))
                 @@ 58 :> SpeedBinding(2)
                 @@ 59 :> MultiBinding(<<MoveBinding(1, 0), ButtonBinding(272)>>))] >>

ConfigFiles == [A |-> FileA, B |-> FileB]
FileNames == {"A", "B"}

\* what readConfig can return: an error, or the parsed file
ReadOutcomes == {"error"} \cup FileNames

\* the KeyCombo slices of the Key bindings in a binding
RECURSIVE CombosIn(_)
CombosIn(binding) ==
  CASE binding.type = "Key" -> {binding.KeyCombo}
    [] binding.type = "TapHold" ->
         CombosIn(binding.TapBinding) \cup CombosIn(binding.HoldBinding)
    [] binding.type = "Multi" ->
         UNION {CombosIn(binding.Bindings[i]) : i \in 1..Len(binding.Bindings)}
    [] OTHER -> {}

\* the KeyCombo slices of all bindings of the configuration files
CombosOfLayer(layer) ==
  CombosIn(layer.WildcardBinding)
  \cup UNION {CombosIn(layer.Bindings[c]) : c \in DOMAIN layer.Bindings}

KeyCombos ==
  UNION {UNION {CombosOfLayer(ConfigFiles[f][i]) : i \in 1..Len(ConfigFiles[f])} :
         f \in FileNames}

(* ------------------------------ layers -------------------------------- *)
NoLayer == [gen |-> -1, file |-> "none", idx |-> 0]
NilConfig == [gen |-> -1, file |-> "none"]

\* config.Layers: the layer objects created by one load of the file
Layers(cfg) ==
  IF cfg = NilConfig THEN <<>>
  ELSE [i \in 1..Len(ConfigFiles[cfg.file]) |->
          [gen |-> cfg.gen, file |-> cfg.file, idx |-> i]]

Range(seq) == {seq[i] : i \in 1..Len(seq)}

\* the fields of a Layer object
LayerOf(l) == ConfigFiles[l.file][l.idx]
Name(l) == LayerOf(l).Name

\* currentLayer.Bindings[code], nil when the map has no entry
Bindings(l, code) ==
  IF code \in DOMAIN LayerOf(l).Bindings THEN LayerOf(l).Bindings[code] ELSE NoBinding


(* ------------------------------- state -------------------------------- *)
VARIABLES
  config,               \* *Config: the loaded configuration
  currentLayer,         \* *Layer
  toggleLayerKeys,      \* []uint16: keys that toggled a layer
  toggleLayerPrevious,  \* []*Layer: the layer each of them came from
  keyboard,             \* VirtualKeyboard: owner code -> combo it holds down
  mouse,                \* VirtualMouse: owner code -> button, and velocity
  alive,                \* FALSE once os.Exit has been called
  pressed,              \* tapHoldHandler.IsKeyPressed: physical key state
  outChannel,           \* tapHoldHandler.OutChannel(): events not yet handled
  mouseTimer,           \* "inf" (math.MaxInt64) or "tick" (mouseLoopInterval)
  keyCombos,            \* the arrays behind the KeyCombo slices of the bindings
  last,                 \* history: what the last main-loop iteration did
  held,                 \* history: keys whose press was handled, release not yet
  toggleHeld,           \* history: held keys whose press executed a ToggleLayer
  stickyKeys            \* history: keys that were held at the last Layer switch

\* one keyboard Device with its ReadLoop task and its readKeyboard tasks
VARIABLES
  devState,             \* Device.state: "NotOpen", "OpenFailed" or "Open"
  lastOpenError,        \* Device.lastOpenError
  loopPc,               \* ReadLoop: "check", "spawn" (before go) or "wait"
  readers,              \* readKeyboard tasks at each place of their code
  stale,                \* a reader's write of state not yet seen by ReadLoop
  openFails,            \* failed opens in a row
  input,                \* history: the input events device.Read returned
  eventChan,            \* history: the Events sent on Device.eventChan
  devLast               \* history: the last open attempt and read failure

mainVars == << config, currentLayer, toggleLayerKeys, toggleLayerPrevious, keyboard,
               mouse, alive, pressed, outChannel, mouseTimer, keyCombos, last,
               held, toggleHeld, stickyKeys >>

devVars == << devState, lastOpenError, loopPc, readers, stale, openFails, input,
              eventChan, devLast >>

vars == << config, currentLayer, toggleLayerKeys, toggleLayerPrevious, keyboard,
           mouse, alive, pressed, outChannel, mouseTimer, keyCombos, last,
           held, toggleHeld, stickyKeys, devState, lastOpenError, loopPc,
           readers, stale, openFails, input, eventChan, devLast >>

\* the interpreter's globals as one value, threaded through the handlers
Globals ==
  [config |-> config, currentLayer |-> currentLayer,
   toggleLayerKeys |-> toggleLayerKeys, toggleLayerPrevious |-> toggleLayerPrevious,
   keyboard |-> keyboard, mouse |-> mouse, alive |-> alive,
   keyCombos |-> keyCombos]

NoCombo == <<>>
NoButton == 0

(* -------------------------- virtual devices --------------------------- *)
\* VirtualKeyboard.PressKeys(owner, keys): the owner now holds the combo
PressKeys(kb, owner, keys) == [kb EXCEPT ![owner] = keys]

\* VirtualKeyboard.OriginalKeyUp(owner): release the owner's combo, forget it
KeyboardOriginalKeyUp(kb, owner) == [kb EXCEPT ![owner] = NoCombo]

\* VirtualMouse.ButtonPress(owner, button)
ButtonPress(m, owner, button) == [m EXCEPT !.buttons[owner] = button]

\* VirtualMouse.OriginalKeyUp(owner)
MouseOriginalKeyUp(m, owner) == [m EXCEPT !.buttons[owner] = NoButton]

\* VirtualMouse.IsMoving(): residual velocity > 0
IsMoving(m) == m.velocity > 0

\* VirtualMouse.Move: accelerate with input, decelerate without
Move(m, dx, dy) ==
  IF dx # 0 \/ dy # 0
  THEN [m EXCEPT !.velocity = IF m.velocity < MaxVelocity THEN m.velocity + 1 ELSE MaxVelocity]
  ELSE [m EXCEPT !.velocity = IF m.velocity > 0 THEN m.velocity - 1 ELSE 0]

(* ------------------------------ loadConfig ---------------------------- *)
\* readConfig(configFile): a fresh Config for the file's contents, or an error
readConfig(cfg, rc) ==
  IF rc = "error" THEN NilConfig ELSE [gen |-> cfg.gen + 1, file |-> rc]

\* exitError: log, then os.Exit(1)
exitError(s) == [s EXCEPT !.alive = FALSE]

loadConfig(s, rc) ==
  LET cfg == readConfig(s.config, rc) IN
  IF rc = "error"
  THEN exitError([s EXCEPT !.config = cfg])
  ELSE [s EXCEPT !.config = cfg, !.currentLayer = Layers(cfg)[1]]

(* ---------------------------- executeBinding -------------------------- *)
\* for _, layer := range config.Layers { if layer.Name == name {...; break} }
RECURSIVE FindLayerFrom(_, _, _)
FindLayerFrom(layers, name, i) ==
  IF i > Len(layers) THEN NoLayer
  ELSE IF Name(layers[i]) = name THEN layers[i]
  ELSE FindLayerFrom(layers, name, i + 1)

FindLayer(cfg, name) == FindLayerFrom(Layers(cfg), name, 1)

\* a Layer switch that keeps the toggled layers
executeLayerBinding_KeepStack(s, event, t) ==
  IF ~event.isPress THEN s
  ELSE
    LET layer == FindLayer(s.config, t.Layer)
    IN IF layer # NoLayer THEN [s EXCEPT !.currentLayer = layer] ELSE s

\* case LayerBinding
executeLayerBinding(s, event, t) ==
  IF ~event.isPress THEN s
  ELSE
    LET cleared == IF s.toggleLayerPrevious # <<>>
                   THEN [s EXCEPT !.toggleLayerKeys = <<>>, !.toggleLayerPrevious = <<>>]
                   ELSE s
        layer == FindLayer(s.config, t.Layer)
    IN IF layer # NoLayer THEN [cleared EXCEPT !.currentLayer = layer] ELSE cleared

\* a ToggleLayer push that records the layer it switches to
executeToggleLayerBinding_PushNew(s, event, t) ==
  IF ~event.isPress THEN s
  ELSE
    LET layer == FindLayer(s.config, t.Layer) IN
    IF layer # NoLayer
    THEN [s EXCEPT !.toggleLayerKeys = Append(s.toggleLayerKeys, event.code),
                   !.toggleLayerPrevious = Append(s.toggleLayerPrevious, layer),
                   !.currentLayer = layer]
    ELSE s

\* case ToggleLayerBinding
executeToggleLayerBinding(s, event, t) ==
  IF ~event.isPress THEN s
  ELSE
    LET layer == FindLayer(s.config, t.Layer) IN
    IF layer # NoLayer
    THEN [s EXCEPT !.toggleLayerKeys = Append(s.toggleLayerKeys, event.code),
                   !.toggleLayerPrevious = Append(s.toggleLayerPrevious, s.currentLayer),
                   !.currentLayer = layer]
    ELSE s

\* case ReloadConfigBinding
executeReloadConfigBinding(s, event, rc) ==
  IF event.isPress THEN loadConfig(s, rc) ELSE s

\* the combo with every wildcard replaced by the key that was pressed
SubstituteWildcard(combo, code) ==
  [i \in 1..Len(combo) |-> IF combo[i] = WildcardKey THEN code ELSE combo[i]]

\* the contents of the array behind a KeyCombo slice; the slice of a
\* synthesized pass-through binding has an array of its own
ComboOf(s, combo) ==
  IF combo \in DOMAIN s.keyCombos THEN s.keyCombos[combo] ELSE combo

\* a Key binding that replaces the wildcards in the binding's own slice
executeKeyBinding_InPlace(s, event, t) ==
  IF event.isPress
  THEN LET keys == SubstituteWildcard(ComboOf(s, t.KeyCombo), event.code) IN
       [s EXCEPT !.keyboard = PressKeys(s.keyboard, event.code, keys),
                 !.keyCombos = IF t.KeyCombo \in DOMAIN s.keyCombos
                               THEN [s.keyCombos EXCEPT ![t.KeyCombo] = keys]
                               ELSE s.keyCombos]
  ELSE s

\* a Key binding that presses its keys on a release as well
executeKeyBinding_AnyEvent(s, event, t) ==
  LET keys == SubstituteWildcard(ComboOf(s, t.KeyCombo), event.code) IN
  [s EXCEPT !.keyboard = PressKeys(s.keyboard, event.code, keys)]

\* case KeyBinding: keys is a copy of t.KeyCombo, the wildcards are replaced
\* in the copy
executeKeyBinding(s, event, t) ==
  IF event.isPress
  THEN LET keys == SubstituteWildcard(ComboOf(s, t.KeyCombo), event.code) IN
       [s EXCEPT !.keyboard = PressKeys(s.keyboard, event.code, keys)]
  ELSE s

\* case ButtonBinding
executeButtonBinding(s, event, t) ==
  IF event.isPress
  THEN [s EXCEPT !.mouse = ButtonPress(s.mouse, event.code, t.Button)]
  ELSE s

\* a TapHold binding that takes the tap binding for a hold and the hold
\* binding for a tap
selectTapHold_Swapped(event, t) ==
  IF event.holdKey THEN t.TapBinding ELSE t.HoldBinding

\* case TapHoldBinding: the sub-binding executeBinding goes on with
selectTapHold(event, t) ==
  IF event.holdKey THEN t.HoldBinding ELSE t.TapBinding

\* executeBinding: dispatch on the binding's type; rc is what readConfig
\* returns should the binding reload the configuration.  Nothing runs once
\* the process has exited.
RECURSIVE executeBinding(_, _, _, _)
executeBinding(s, event, binding, rc) ==
  IF ~s.alive THEN s
  ELSE CASE binding.type = "Multi" ->
              IF binding.Bindings = <<>> THEN s
              ELSE executeBinding(executeBinding(s, event, Head(binding.Bindings), rc),
                                  event, MultiBinding(Tail(binding.Bindings)), rc)
         [] binding.type = "TapHold" ->
              executeBinding(s, event, selectTapHold(event, binding), rc)
         [] binding.type = "Layer" -> executeLayerBinding(s, event, binding)
         [] binding.type = "ToggleLayer" -> executeToggleLayerBinding(s, event, binding)
         [] binding.type = "ReloadConfig" -> executeReloadConfigBinding(s, event, rc)
         [] binding.type = "Key" -> executeKeyBinding(s, event, binding)
         [] binding.type = "Button" -> executeButtonBinding(s, event, binding)
         [] OTHER -> s   \* Exec runs a command; Move, Scroll, Speed, nil: nothing

(* ------------------------------ handleKey ----------------------------- *)
\* lookup with the Escape fallback tried last, after wildcard and pass through
lookupBinding_EscapeLast(s, event) ==
  LET exact == Bindings(s.currentLayer, event.code)
      wildcard == IF exact = NoBinding /\ LayerOf(s.currentLayer).WildcardBinding # NoBinding
                  THEN LayerOf(s.currentLayer).WildcardBinding
                  ELSE exact
      pass == IF wildcard = NoBinding /\ LayerOf(s.currentLayer).PassThrough
              THEN KeyBinding(<<event.code>>)
              ELSE wildcard
  IN IF pass = NoBinding /\ event.code = KEY_ESC /\ event.isPress
        /\ s.currentLayer # Layers(s.config)[1]
     THEN LayerBinding(Name(Layers(s.config)[1]))
     ELSE pass

\* the binding handleKey resolves for the event on the current layer
lookupBinding(s, event) ==
  LET exact == Bindings(s.currentLayer, event.code)
      escape == IF exact = NoBinding /\ event.code = KEY_ESC /\ event.isPress
                   /\ s.currentLayer # Layers(s.config)[1]
                THEN LayerBinding(Name(Layers(s.config)[1]))
                ELSE exact
      wildcard == IF escape = NoBinding /\ LayerOf(s.currentLayer).WildcardBinding # NoBinding
                  THEN LayerOf(s.currentLayer).WildcardBinding
                  ELSE escape
  IN IF wildcard = NoBinding /\ LayerOf(s.currentLayer).PassThrough
     THEN KeyBinding(<<event.code>>)
     ELSE wildcard

\* index of the first entry of toggleLayerKeys equal to code, 0 if none
RECURSIVE IndexFrom(_, _, _)
IndexFrom(keys, code, i) ==
  IF i > Len(keys) THEN 0
  ELSE IF keys[i] = code THEN i
  ELSE IndexFrom(keys, code, i + 1)

\* a release that switches back but leaves the stack as it is
releaseToggle_NoTruncate(s, event) ==
  LET i == IndexFrom(s.toggleLayerKeys, event.code, 1) IN
  IF ~event.isPress /\ i > 0
  THEN [s EXCEPT !.currentLayer = s.toggleLayerPrevious[i]]
  ELSE s

\* a release that removes only the entry of the released key, no cascade
releaseToggle_NoCascade(s, event) ==
  LET i == IndexFrom(s.toggleLayerKeys, event.code, 1)
      n == Len(s.toggleLayerKeys) IN
  IF ~event.isPress /\ i > 0
  THEN [s EXCEPT !.currentLayer = s.toggleLayerPrevious[i],
                 !.toggleLayerKeys = SubSeq(s.toggleLayerKeys, 1, i - 1)
                                     \o SubSeq(s.toggleLayerKeys, i + 1, n),
                 !.toggleLayerPrevious = SubSeq(s.toggleLayerPrevious, 1, i - 1)
                                         \o SubSeq(s.toggleLayerPrevious, i + 1, n)]
  ELSE s

\* go back to the previous layer when a toggleLayerKey is released
releaseToggle(s, event) ==
  LET i == IndexFrom(s.toggleLayerKeys, event.code, 1) IN
  IF ~event.isPress /\ i > 0
  THEN [s EXCEPT !.currentLayer = s.toggleLayerPrevious[i],
                 !.toggleLayerKeys = SubSeq(s.toggleLayerKeys, 1, i - 1),
                 !.toggleLayerPrevious = SubSeq(s.toggleLayerPrevious, 1, i - 1)]
  ELSE s

\* releases reported to the virtual mouse only
informRelease_MouseOnly(s, event) ==
  IF ~event.isPress
  THEN [s EXCEPT !.mouse = MouseOriginalKeyUp(s.mouse, event.code)]
  ELSE s

\* inform the keyboard and mouse about key releases
informRelease(s, event) ==
  IF ~event.isPress
  THEN [s EXCEPT !.keyboard = KeyboardOriginalKeyUp(s.keyboard, event.code),
                 !.mouse = MouseOriginalKeyUp(s.mouse, event.code)]
  ELSE s

handleKey(s, event, rc) ==
  LET binding == lookupBinding(s, event) IN
  executeBinding(informRelease(releaseToggle(s, event), event), event, binding, rc)

(* ------------------------ mouse section of mainLoop ------------------- *)
RECURSIVE SumOver(_, _)
SumOver(S, f) ==
  IF S = {} THEN 0
  ELSE LET c == CHOOSE x \in S : TRUE IN f[c] + SumOver(S \ {c}, f)

RECURSIVE ProductOver(_, _)
ProductOver(S, f) ==
  IF S = {} THEN 1
  ELSE LET c == CHOOSE x \in S : TRUE IN f[c] * ProductOver(S \ {c}, f)

\* the codes of currentLayer.Bindings that are physically pressed and bound
\* to a binding of the given type
PressedOfType(l, isPressed, type) ==
  {c \in DOMAIN LayerOf(l).Bindings : c \in isPressed /\ LayerOf(l).Bindings[c].type = type}

\* moveX, moveY, scrollX, scrollY, speedFactor before the loop over Bindings
NoAccumulation ==
  [moveX |-> 0, moveY |-> 0, scrollX |-> 0, scrollY |-> 0, speedFactor |-> 1]

\* an accumulation that gives a pressed key without an entry in Bindings the
\* layer's wildcard binding
Accumulate_Wildcard(l, isPressed) ==
  LET B == [c \in isPressed |->
              IF Bindings(l, c) # NoBinding THEN Bindings(l, c)
              ELSE LayerOf(l).WildcardBinding]
      moves == {c \in isPressed : B[c].type = "Move"}
      scrolls == {c \in isPressed : B[c].type = "Scroll"}
      speeds == {c \in isPressed : B[c].type = "Speed"}
  IN [moveX |-> SumOver(moves, [c \in moves |-> B[c].X]),
      moveY |-> SumOver(moves, [c \in moves |-> B[c].Y]),
      scrollX |-> SumOver(scrolls, [c \in scrolls |-> B[c].X]),
      scrollY |-> SumOver(scrolls, [c \in scrolls |-> B[c].Y]),
      speedFactor |-> ProductOver(speeds, [c \in speeds |-> B[c].Speed])]

\* moveX, moveY, scrollX, scrollY, speedFactor after the loop over Bindings
Accumulate(l, isPressed) ==
  LET B == LayerOf(l).Bindings
      moves == PressedOfType(l, isPressed, "Move")
      scrolls == PressedOfType(l, isPressed, "Scroll")
      speeds == PressedOfType(l, isPressed, "Speed")
  IN [moveX |-> SumOver(moves, [c \in moves |-> B[c].X]),
      moveY |-> SumOver(moves, [c \in moves |-> B[c].Y]),
      scrollX |-> SumOver(scrolls, [c \in scrolls |-> B[c].X]),
      scrollY |-> SumOver(scrolls, [c \in scrolls |-> B[c].Y]),
      speedFactor |-> ProductOver(speeds, [c \in speeds |-> B[c].Speed])]

\* the condition without the residual motion of the virtual mouse
MouseActive_NoResidual(l, isPressed, m) ==
  LET a == Accumulate(l, isPressed) IN
  a.moveX # 0 \/ a.moveY # 0 \/ a.scrollX # 0 \/ a.scrollY # 0

\* if moveX != 0 || moveY != 0 || scrollX != 0 || scrollY != 0 || mouse.IsMoving()
MouseActive(l, isPressed, m) ==
  LET a == Accumulate(l, isPressed) IN
  a.moveX # 0 \/ a.moveY # 0 \/ a.scrollX # 0 \/ a.scrollY # 0 \/ IsMoving(m)

\* the mouse section: the virtual mouse, the timer and whether Scroll and
\* Move were called
mouseSection(l, isPressed, m) ==
  LET a == Accumulate(l, isPressed) IN
  IF MouseActive(l, isPressed, m)
  THEN [mouse |-> Move(m, a.moveX, a.moveY), mouseTimer |-> "tick",
        moved |-> TRUE, scrolled |-> TRUE]
  ELSE [mouse |-> m, mouseTimer |-> "inf", moved |-> FALSE, scrolled |-> FALSE]

(* ------------------------------ history ------------------------------- *)
NoEvent == [code |-> 0, isPress |-> FALSE, holdKey |-> FALSE]

\* the binding a TapHold binding stands for under the event's holdKey flag
RECURSIVE Resolve(_, _)
Resolve(binding, event) ==
  IF binding.type = "TapHold"
  THEN Resolve(IF event.holdKey THEN binding.HoldBinding ELSE binding.TapBinding, event)
  ELSE binding

\* does executing the binding for the event execute a ToggleLayer binding
RECURSIVE ExecutesToggleLayer(_, _)
ExecutesToggleLayer(binding, event) ==
  CASE binding.type = "ToggleLayer" -> TRUE
    [] binding.type = "TapHold" -> ExecutesToggleLayer(Resolve(binding, event), event)
    [] binding.type = "Multi" ->
         \E i \in 1..Len(binding.Bindings) : ExecutesToggleLayer(binding.Bindings[i], event)
    [] OTHER -> FALSE

\* the keys some layer of some configuration file binds to a TapHold binding
TapHoldKeys ==
  {c \in Keys : \E f \in FileNames : \E i \in 1..Len(ConfigFiles[f]) :
      c \in DOMAIN ConfigFiles[f][i].Bindings
      /\ ConfigFiles[f][i].Bindings[c].type = "TapHold"}

HoldFlags(c) == IF c \in TapHoldKeys THEN BOOLEAN ELSE {FALSE}

(* ------------------------------ actions ------------------------------- *)
Init ==
  /\ config = [gen |-> 0, file |-> "A"]
  /\ currentLayer = Layers([gen |-> 0, file |-> "A"])[1]
  /\ toggleLayerKeys = <<>>
  /\ toggleLayerPrevious = <<>>
  /\ keyboard = [c \in Keys |-> NoCombo]
  /\ mouse = [buttons |-> [c \in Keys |-> NoButton], velocity |-> 0]
  /\ alive = TRUE
  /\ pressed = {}
  /\ outChannel = <<>>
  /\ mouseTimer = "inf"
  /\ keyCombos = [combo \in KeyCombos |-> combo]
  /\ last = [by |-> "none", event |-> NoEvent, binding |-> NoBinding,
             config |-> NilConfig, layer |-> NoLayer, keys |-> <<>>, prev |-> <<>>,
             armed |-> "inf", moved |-> FALSE, scrolled |-> FALSE,
             owned |-> FALSE, sticky |-> FALSE, toggled |-> FALSE, read |-> "none",
             acc |-> NoAccumulation]
  /\ held = {}
  /\ toggleHeld = {}
  /\ stickyKeys = {}
  /\ devState = StateNotOpen
  /\ lastOpenError = ""
  /\ loopPc = "check"
  /\ readers = [loop |-> 0, reading |-> 0, returning |-> 0]
  /\ stale = FALSE
  /\ openFails = 0
  /\ input = <<>>
  /\ eventChan = <<>>
  /\ devLast = [attempt |-> "none", from |-> StateNotOpen, level |-> "none",
                readFail |-> "none", errBefore |-> "", afterRead |-> "none"]

\* a key goes down; the tap-hold handler publishes the press
PhysicalPress(c, h) ==
  /\ alive
  /\ c \notin pressed
  /\ Len(outChannel) < MaxQueue
  /\ pressed' = pressed \cup {c}
  /\ outChannel' = Append(outChannel, [code |-> c, isPress |-> TRUE, holdKey |-> h])
  /\ UNCHANGED << config, currentLayer, toggleLayerKeys, toggleLayerPrevious,
                  keyboard, mouse, alive, mouseTimer, keyCombos, last, held,
                  toggleHeld, stickyKeys >>
  /\ UNCHANGED devVars

\* a key goes up; the tap-hold handler publishes the release
PhysicalRelease(c, h) ==
  /\ alive
  /\ c \in pressed
  /\ Len(outChannel) < MaxQueue
  /\ pressed' = pressed \ {c}
  /\ outChannel' = Append(outChannel, [code |-> c, isPress |-> FALSE, holdKey |-> h])
  /\ UNCHANGED << config, currentLayer, toggleLayerKeys, toggleLayerPrevious,
                  keyboard, mouse, alive, mouseTimer, keyCombos, last, held,
                  toggleHeld, stickyKeys >>
  /\ UNCHANGED devVars

\* one iteration of mainLoop woken by an event on the output channel:
\* handleKey, then the mouse section.  The check for an open device between
\* the two only logs and sleeps.  When handleKey ends the process (a failed
\* reload) the mouse section is not reached.
MainLoopEvent(rc) ==
  /\ alive
  /\ outChannel # <<>>
  /\ LET event == Head(outChannel)
         binding == lookupBinding(Globals, event)
         s == handleKey(Globals, event, rc)
         m == mouseSection(s.currentLayer, pressed, s.mouse)
         switched == /\ event.isPress
                     /\ Resolve(binding, event).type = "Layer"
                     /\ FindLayer(config, Resolve(binding, event).Layer) # NoLayer
     IN /\ s.config.gen <= MaxReloads
        /\ outChannel' = Tail(outChannel)
        /\ config' = s.config
        /\ currentLayer' = s.currentLayer
        /\ toggleLayerKeys' = s.toggleLayerKeys
        /\ toggleLayerPrevious' = s.toggleLayerPrevious
        /\ keyboard' = s.keyboard
        /\ keyCombos' = s.keyCombos
        /\ alive' = s.alive
        /\ mouse' = IF s.alive THEN m.mouse ELSE s.mouse
        /\ mouseTimer' = IF s.alive THEN m.mouseTimer ELSE mouseTimer
        /\ last' = [by |-> "event", event |-> event, binding |-> binding,
                    config |-> config, layer |-> currentLayer,
                    keys |-> toggleLayerKeys, prev |-> toggleLayerPrevious,
                    armed |-> mouseTimer,
                    moved |-> s.alive /\ m.moved, scrolled |-> s.alive /\ m.scrolled,
                    owned |-> \/ keyboard[event.code] # NoCombo
                              \/ mouse.buttons[event.code] # NoButton,
                    sticky |-> event.code \in stickyKeys,
                    toggled |-> event.code \in toggleHeld,
                    read |-> IF event.isPress /\ Resolve(binding, event).type = "ReloadConfig"
                             THEN rc ELSE "none",
                    acc |-> IF s.alive THEN Accumulate(s.currentLayer, pressed)
                            ELSE NoAccumulation]
        /\ held' = IF event.isPress THEN held \cup {event.code} ELSE held \ {event.code}
        /\ toggleHeld' = IF ~event.isPress THEN toggleHeld \ {event.code}
                         ELSE IF ExecutesToggleLayer(binding, event)
                              THEN toggleHeld \cup {event.code}
                              ELSE toggleHeld
        /\ stickyKeys' = IF ~event.isPress THEN stickyKeys \ {event.code}
                         ELSE IF switched THEN held \cup {event.code}
                         ELSE stickyKeys
  /\ UNCHANGED pressed
  /\ UNCHANGED devVars

\* one iteration of mainLoop woken by the mouse timer
MainLoopTimer ==
  /\ alive
  /\ mouseTimer = "tick"
  /\ LET m == mouseSection(currentLayer, pressed, mouse)
     IN /\ mouse' = m.mouse
        /\ mouseTimer' = m.mouseTimer
        /\ last' = [by |-> "timer", event |-> NoEvent, binding |-> NoBinding,
                    config |-> config, layer |-> currentLayer,
                    keys |-> toggleLayerKeys, prev |-> toggleLayerPrevious,
                    armed |-> mouseTimer, moved |-> m.moved, scrolled |-> m.scrolled,
                    owned |-> FALSE, sticky |-> FALSE, toggled |-> FALSE,
                    read |-> "none", acc |-> Accumulate(currentLayer, pressed)]
  /\ UNCHANGED << config, currentLayer, toggleLayerKeys, toggleLayerPrevious,
                  keyboard, alive, pressed, outChannel, keyCombos, held,
                  toggleHeld, stickyKeys >>
  /\ UNCHANGED devVars

Next ==
  \/ \E c \in Keys : \E h \in HoldFlags(c) : PhysicalPress(c, h)
  \/ \E c \in Keys : \E h \in HoldFlags(c) : PhysicalRelease(c, h)
  \/ \E rc \in ReadOutcomes : MainLoopEvent(rc)
  \/ MainLoopTimer

Spec == Init /\ [][Next]_vars

(* --------------------------- keyboard Device -------------------------- *)
\* evdev input events: key events and one other type (EV_MSC), two key
\* codes, and the values release (0), press (1) and autorepeat (2)
InputEvents == [Type : {EV_KEY, EV_KEY + 3}, Code : {30, 44}, Value : {0, 1, 2}]

\* the slices of events one device.Read may return with n events left to explore
Batches(n) == UNION { [1..k -> InputEvents] : k \in 1..n }

\* evdev.Open and device.Grab: success, or the error of the call that failed
OpenOutcomes == {"ok", "open failed", "grab failed"}

\* openDevice marking the device open before the grab
openDevice_OpenBeforeGrab(outcome) ==
  IF outcome = "ok"
  THEN [state |-> StateOpen, err |-> "", opened |-> TRUE]
  ELSE [state |-> IF outcome = "grab failed" THEN StateOpen ELSE StateOpenFailed,
        err |-> outcome, opened |-> FALSE]

\* openDevice: the state it sets, the error it returns, whether it goes on to
\* start a reader
openDevice(outcome) ==
  IF outcome = "ok"
  THEN [state |-> StateOpen, err |-> "", opened |-> TRUE]
  ELSE [state |-> StateOpenFailed, err |-> outcome, opened |-> FALSE]

\* ReadLoop: the level of the log line after a failed openDevice, chosen by the
\* state openDevice left behind
logLevel(state) == IF state = StateOpenFailed THEN "debug" ELSE "warn"

\* readKeyboard forwarding autorepeat events as well
RECURSIVE publish_Autorepeat(_)
publish_Autorepeat(events) ==
  IF events = <<>> THEN <<>>
  ELSE LET event == Head(events)
           rest == publish_Autorepeat(Tail(events))
       IN  IF event.Type = EV_KEY
           THEN <<[Code |-> event.Code, IsPress |-> event.Value = 1]>> \o rest
           ELSE rest

\* readKeyboard: the Events sent on eventChan for one slice of input events
\* (Event.Time is left out)
RECURSIVE publish(_)
publish(events) ==
  IF events = <<>> THEN <<>>
  ELSE LET event == Head(events)
           rest == publish(Tail(events))
       IN  IF event.Type = EV_KEY /\ (event.Value = 0 \/ event.Value = 1)
           THEN <<[Code |-> event.Code, IsPress |-> event.Value = 1]>> \o rest
           ELSE rest

IsOpen == devState = StateOpen

LastOpenError == lastOpenError

\* k.state as ReadLoop reads it: the reader's write races with this read
SeenState == IF stale THEN StateOpen ELSE devState

\* ReadLoop retrying only from StateNotOpen
LoopCheck_NotOpenOnly(outcome) ==
  /\ loopPc = "check"
  /\ UNCHANGED << readers, stale, input, eventChan >>
  /\ UNCHANGED mainVars
  /\ IF SeenState # StateNotOpen
     THEN /\ outcome = "ok"
          /\ loopPc' = "wait"
          /\ UNCHANGED << devState, lastOpenError, openFails, devLast >>
     ELSE LET r == openDevice(outcome) IN
          /\ outcome # "ok" => openFails < MaxOpenFailures
          /\ devState' = r.state
          /\ lastOpenError' = IF r.opened THEN lastOpenError ELSE r.err
          /\ openFails' = IF r.opened THEN 0 ELSE openFails + 1
          /\ loopPc' = IF r.opened THEN "spawn" ELSE "wait"
          /\ devLast' = [devLast EXCEPT
                 !.attempt = IF r.opened THEN "ok" ELSE "failed",
                 !.from = devState,
                 !.level = IF r.opened THEN "none" ELSE logLevel(r.state),
                 !.readFail = IF r.opened \/ @ = "none" THEN "none" ELSE "retried",
                 !.afterRead = IF r.opened THEN devLast.readFail ELSE @]

\* ReadLoop, one pass of the loop body up to the select: the state test and,
\* when the device is not open, openDevice up to k.state = StateOpen
LoopCheck(outcome) ==
  /\ loopPc = "check"
  /\ UNCHANGED << readers, stale, input, eventChan >>
  /\ UNCHANGED mainVars
  /\ IF SeenState = StateOpen
     THEN /\ outcome = "ok"
          /\ loopPc' = "wait"
          /\ UNCHANGED << devState, lastOpenError, openFails, devLast >>
     ELSE LET r == openDevice(outcome) IN
          /\ outcome # "ok" => openFails < MaxOpenFailures
          /\ devState' = r.state
          /\ lastOpenError' = IF r.opened THEN lastOpenError ELSE r.err
          /\ openFails' = IF r.opened THEN 0 ELSE openFails + 1
          /\ loopPc' = IF r.opened THEN "spawn" ELSE "wait"
          /\ devLast' = [devLast EXCEPT
                 !.attempt = IF r.opened THEN "ok" ELSE "failed",
                 !.from = devState,
                 !.level = IF r.opened THEN "none" ELSE logLevel(r.state),
                 !.readFail = IF r.opened \/ @ = "none" THEN "none" ELSE "retried",
                 !.afterRead = IF r.opened THEN devLast.readFail ELSE @]

\* openDevice: go k.readKeyboard()
LoopSpawn ==
  /\ loopPc = "spawn"
  /\ loopPc' = "wait"
  /\ readers' = [readers EXCEPT !.loop = @ + 1]
  /\ UNCHANGED << devState, lastOpenError, stale, openFails, input, eventChan,
                  devLast >>
  /\ UNCHANGED mainVars

\* ReadLoop: the 5 s ticker fires
LoopTick ==
  /\ loopPc = "wait"
  /\ loopPc' = "check"
  /\ UNCHANGED << devState, lastOpenError, readers, stale, openFails, input,
                  eventChan, devLast >>
  /\ UNCHANGED mainVars

\* readKeyboard: the state test at the top of its loop
ReaderCheck ==
  /\ readers.loop > 0
  /\ readers' = IF devState # StateOpen
                THEN [readers EXCEPT !.loop = @ - 1]
                ELSE [readers EXCEPT !.loop = @ - 1, !.reading = @ + 1]
  /\ UNCHANGED << devState, lastOpenError, loopPc, stale, openFails, input,
                  eventChan, devLast >>
  /\ UNCHANGED mainVars

\* readKeyboard: device.Read returns events, which are filtered and sent
ReaderRead(events) ==
  /\ readers.reading > 0
  /\ Len(input) + Len(events) <= MaxReads
  /\ input' = input \o events
  /\ eventChan' = eventChan \o publish(events)
  /\ readers' = [readers EXCEPT !.reading = @ - 1, !.loop = @ + 1]
  /\ UNCHANGED << devState, lastOpenError, loopPc, stale, openFails, devLast >>
  /\ UNCHANGED mainVars

\* readKeyboard recording the read failure as the last error
ReaderFail_RecordsError ==
  /\ readers.reading > 0
  /\ readers.returning < MaxReturning
  /\ devState' = StateNotOpen
  /\ lastOpenError' = "read failed"
  /\ stale' = TRUE
  /\ readers' = [readers EXCEPT !.reading = @ - 1, !.returning = @ + 1]
  /\ devLast' = [devLast EXCEPT !.readFail = "pending", !.errBefore = lastOpenError]
  /\ UNCHANGED << loopPc, openFails, input, eventChan >>
  /\ UNCHANGED mainVars

\* readKeyboard: device.Read fails; the failure is logged and the state set
ReaderFail ==
  /\ readers.reading > 0
  /\ readers.returning < MaxReturning
  /\ devState' = StateNotOpen
  /\ stale' = TRUE
  /\ readers' = [readers EXCEPT !.reading = @ - 1, !.returning = @ + 1]
  /\ devLast' = [devLast EXCEPT !.readFail = "pending", !.errBefore = lastOpenError]
  /\ UNCHANGED << lastOpenError, loopPc, openFails, input, eventChan >>
  /\ UNCHANGED mainVars

\* readKeyboard: return after a read failure
ReaderReturn ==
  /\ readers.returning > 0
  /\ readers' = [readers EXCEPT !.returning = @ - 1]
  /\ UNCHANGED << devState, lastOpenError, loopPc, stale, openFails, input,
                  eventChan, devLast >>
  /\ UNCHANGED mainVars

\* the reader's write of k.state reaches the ReadLoop task
StateVisible ==
  /\ stale
  /\ stale' = FALSE
  /\ UNCHANGED << devState, lastOpenError, loopPc, readers, openFails, input,
                  eventChan, devLast >>
  /\ UNCHANGED mainVars

NextDevice ==
  \/ \E outcome \in OpenOutcomes : LoopCheck(outcome)
  \/ LoopSpawn
  \/ LoopTick
  \/ ReaderCheck
  \/ \E events \in Batches(MaxReads) : ReaderRead(events)
  \/ ReaderFail
  \/ ReaderReturn
  \/ StateVisible

SpecDevice == Init /\ [][NextDevice]_vars

\* the tasks are scheduled, the ticker fires, and writes become visible
FairSpecDevice ==
  /\ SpecDevice
  /\ WF_vars(\E outcome \in OpenOutcomes : LoopCheck(outcome))
  /\ WF_vars(LoopSpawn)
  /\ WF_vars(LoopTick)
  /\ WF_vars(StateVisible)

(* =============================== claims =============================== *)
LastPress == last.by = "event" /\ last.event.isPress
LastRelease == last.by = "event" /\ ~last.event.isPress

\* the binding the last press stands for once TapHold is resolved
LastResolved == Resolve(last.binding, last.event)

\* the initial layer of the configuration the last iteration started with
LastInitial == Layers(last.config)[1]

\* the last event was a press of Escape on a non-initial layer whose
\* Bindings map has no entry for Escape
EscapeCase ==
  /\ LastPress
  /\ last.event.code = KEY_ESC
  /\ last.layer # LastInitial
  /\ Bindings(last.layer, KEY_ESC) = NoBinding

\* C1 (as amended): the binding of an event is resolved in the order exact
\* binding of currentLayer, then the Escape bail-out, then the layer's
\* wildcard binding, then the pass-through Key binding.  A press of Escape on
\* a non-initial layer without an exact Escape binding resolves to
\* Layer(initial) also when the layer has a wildcard binding or passThrough:
\* currentLayer becomes the initial layer, the momentary stack is emptied and
\* PressKeys is not called.
C1_EscapeBeforeWildcard ==
  /\ EscapeCase =>
       /\ last.binding = LayerBinding(Name(LastInitial))
       /\ currentLayer = LastInitial
       /\ toggleLayerKeys = <<>>
       /\ keyboard[KEY_ESC] = NoCombo
  /\ (last.by = "event" /\ ~EscapeCase) =>
       last.binding =
         IF Bindings(last.layer, last.event.code) # NoBinding
         THEN Bindings(last.layer, last.event.code)
         ELSE IF LayerOf(last.layer).WildcardBinding # NoBinding
         THEN LayerOf(last.layer).WildcardBinding
         ELSE IF LayerOf(last.layer).PassThrough
         THEN KeyBinding(<<last.event.code>>)
         ELSE NoBinding

\* C1 witness: Escape was pressed on a non-initial layer that has a wildcard
\* binding and no exact Escape binding
C1_Witness ==
  EscapeCase /\ LayerOf(last.layer).WildcardBinding # NoBinding

\* C1 as stated: with a wildcard binding or passThrough the Escape press
\* resolves to the wildcard (or pass-through Key) binding, not Layer(initial)
C1_EscapeAfterLookup ==
  (EscapeCase /\ (LayerOf(last.layer).WildcardBinding # NoBinding
                  \/ LayerOf(last.layer).PassThrough)) =>
    /\ last.binding = IF LayerOf(last.layer).WildcardBinding # NoBinding
                      THEN LayerOf(last.layer).WildcardBinding
                      ELSE KeyBinding(<<KEY_ESC>>)
    /\ keyboard[KEY_ESC] # NoCombo

\* C2: while the process runs, currentLayer is one of the layers of the
\* currently loaded config (config.Layers) and is not null
C2_CurrentLayerInConfig ==
  alive => (currentLayer # NoLayer /\ currentLayer \in Range(Layers(config)))

\* C3 (as amended): every key in the momentary stack is a key currently held
\* whose press executed a ToggleLayer binding; the length of the stack is not
\* tied to the number of such keys
C3_StackKeysAreHeldToggles ==
  /\ Range(toggleLayerKeys) \subseteq toggleHeld
  /\ toggleHeld \subseteq held

\* C3 witness: keys whose press executed a ToggleLayer binding are held and
\* the stack is non-empty with a length other than their number
C3_Witness ==
  /\ toggleLayerKeys # <<>>
  /\ toggleHeld # {}
  /\ Len(toggleLayerKeys) # Cardinality(toggleHeld)

\* C3 as stated: the length of the momentary stack equals the number of keys
\* currently held whose press executed a ToggleLayer binding
C3_StackLengthIsHeldToggles ==
  /\ Len(toggleLayerKeys) = Cardinality(toggleHeld)
  /\ Len(toggleLayerPrevious) = Cardinality(toggleHeld)

\* C4: when every pressed key has been released and every event handled, the
\* virtual keyboard holds no key and the virtual mouse no button; an owner
\* holds a combo or a button only while its key is held
AllReleased == alive /\ pressed = {} /\ outChannel = <<>>

C4_NothingHeldAfterRelease ==
  /\ AllReleased => \A c \in Keys : keyboard[c] = NoCombo /\ mouse.buttons[c] = NoButton
  /\ alive => \A c \in Keys \ held : keyboard[c] = NoCombo /\ mouse.buttons[c] = NoButton

\* C4 witness: the last key was released on another layer than the one its
\* press was handled on, it owned a combo or a button, and nothing is held
C4_Witness ==
  /\ AllReleased
  /\ LastRelease
  /\ last.owned
  /\ last.keys = <<>>
  /\ LayerOf(last.layer).WildcardBinding = NoBinding
  /\ ~LayerOf(last.layer).PassThrough
  /\ Bindings(last.layer, last.event.code).type \notin {"Key", "Button", "TapHold", "Multi"}

\* the lowest index at which the released key occurs in the stack the last
\* iteration started with, 0 if it does not occur
LastIndex ==
  IF \E i \in 1..Len(last.keys) : last.keys[i] = last.event.code
  THEN CHOOSE i \in 1..Len(last.keys) :
         /\ last.keys[i] = last.event.code
         /\ \A j \in 1..(i - 1) : last.keys[j] # last.event.code
  ELSE 0

\* C5: a release whose code occurs in the momentary stack at lowest index i
\* makes currentLayer previousLayers[i] and truncates both stacks to the
\* entries before i; a release whose code is not in the stack leaves
\* currentLayer and the stack unchanged
C5_ReleasePopsCascade ==
  LastRelease =>
    IF LastIndex > 0
    THEN /\ currentLayer = last.prev[LastIndex]
         /\ toggleLayerKeys = SubSeq(last.keys, 1, LastIndex - 1)
         /\ toggleLayerPrevious = SubSeq(last.prev, 1, LastIndex - 1)
    ELSE /\ currentLayer = last.layer
         /\ toggleLayerKeys = last.keys
         /\ toggleLayerPrevious = last.prev

\* C5 witness: 58 toggled L1 from L0, 59 toggled L2 from L1, and the release
\* of 58 left L0 with an empty stack
C5_Witness ==
  /\ LastRelease
  /\ last.event.code = 58
  /\ last.keys = <<58, 59>>
  /\ Name(last.layer) = "L2"
  /\ Name(currentLayer) = "L0"
  /\ toggleLayerKeys = <<>>

\* the last press stood for a Layer binding naming a layer of the config
LayerSwitch ==
  /\ LastPress
  /\ LastResolved.type = "Layer"
  /\ FindLayer(last.config, LastResolved.Layer) # NoLayer

\* the last press stood for a ToggleLayer binding naming a layer of the config
TogglePush ==
  /\ LastPress
  /\ LastResolved.type = "ToggleLayer"
  /\ FindLayer(last.config, LastResolved.Layer) # NoLayer

\* C6: a press that executes a Layer binding naming an existing layer makes
\* that layer current and empties the momentary stack; the release of a key
\* that was held at the switch (the key of the Layer binding, a key that had
\* pushed a toggle) does not change currentLayer; a ToggleLayer press pushes
\* one entry, so after the switch the stack restarts from length 1
C6_LayerSwitchIsSticky ==
  /\ LayerSwitch =>
       /\ currentLayer = FindLayer(last.config, LastResolved.Layer)
       /\ toggleLayerKeys = <<>>
       /\ toggleLayerPrevious = <<>>
  /\ (LastRelease /\ last.sticky) => currentLayer = last.layer
  /\ TogglePush =>
       /\ toggleLayerKeys = Append(last.keys, last.event.code)
       /\ toggleLayerPrevious = Append(last.prev, last.layer)
  /\ stickyKeys \cap Range(toggleLayerKeys) = {}

\* C6 witness: a key that had pushed a toggle before a Layer press was
\* released after it, on the layer the Layer binding switched to
C6_Witness ==
  /\ LastRelease
  /\ last.sticky
  /\ last.toggled
  /\ Name(last.layer) = "L1"
  /\ currentLayer = last.layer

\* C7: a press that executes a Layer or ToggleLayer binding naming no layer of
\* the config leaves currentLayer and both stacks unchanged
C7_UnknownLayerIgnored ==
  (/\ LastPress
   /\ LastResolved.type \in {"Layer", "ToggleLayer"}
   /\ FindLayer(last.config, LastResolved.Layer) = NoLayer) =>
    /\ currentLayer = last.layer
    /\ toggleLayerKeys = last.keys
    /\ toggleLayerPrevious = last.prev

\* C8: when a ReloadConfig press fails to read the configuration, the process
\* keeps running with the previously loaded config and currentLayer
C8_ReloadFailureKeepsRunning ==
  (LastPress /\ last.read = "error") =>
    /\ alive
    /\ config = last.config
    /\ currentLayer = last.layer

\* the summed Move or Scroll contribution of the bindings of layer l whose
\* key is in isPressed is nonzero on some axis
Contributes(l, isPressed) ==
  LET moves == {c \in isPressed : Bindings(l, c).type = "Move"}
      scrolls == {c \in isPressed : Bindings(l, c).type = "Scroll"}
  IN \/ SumOver(moves, [c \in moves |-> Bindings(l, c).X]) # 0
     \/ SumOver(moves, [c \in moves |-> Bindings(l, c).Y]) # 0
     \/ SumOver(scrolls, [c \in scrolls |-> Bindings(l, c).X]) # 0
     \/ SumOver(scrolls, [c \in scrolls |-> Bindings(l, c).Y]) # 0

\* a step that is a completed main-loop iteration: the physical key state is
\* that of the iteration, and the process did not exit in handleKey
IterationStep == pressed' = pressed /\ alive'

\* C9: in each main-loop iteration Move and Scroll are called and the 20 ms
\* timer is armed if and only if the held bindings of currentLayer contribute
\* motion or scroll or the mouse is still moving; otherwise neither is called
\* and the infinite timer is armed
C9_MoveIffActive ==
  [][IterationStep =>
       IF Contributes(currentLayer', pressed) \/ mouse.velocity > 0
       THEN last'.moved /\ last'.scrolled /\ mouseTimer' = "tick"
       ELSE /\ ~last'.moved /\ ~last'.scrolled /\ mouseTimer' = "inf"
            /\ mouse'.velocity = mouse.velocity]_vars

\* C9 witness: the timer woke the loop with no contributing key held and the
\* mouse still moving; Move was called, the velocity reached 0 and the tick
\* timer was armed once more
C9_Witness ==
  /\ last.by = "timer"
  /\ last.moved
  /\ ~Contributes(currentLayer, pressed)
  /\ mouse.velocity = 0
  /\ mouseTimer = "tick"

\* C10: an iteration woken by a key event while the tick timer is armed calls
\* neither Move nor Scroll: they are called once per 20 ms tick
C10_OneCallPerTick ==
  (last.by = "event" /\ last.armed = "tick") => (~last.moved /\ ~last.scrolled)

\* the sub-binding of a TapHold binding the claim selects for the last event
LastSelected ==
  IF last.event.holdKey THEN last.binding.HoldBinding ELSE last.binding.TapBinding

\* C15: a press on a TapHold binding executes only the hold sub-binding when
\* holdKey is set and only the tap sub-binding when it is not: a selected Key
\* binding calls PressKeys and leaves currentLayer and the stack alone, a
\* selected Layer binding switches the layer and calls no PressKeys, a
\* selected Move or Exec binding changes neither
C15_TapHoldSelectsByHoldKey ==
  (LastPress /\ last.binding.type = "TapHold" /\ alive) =>
    CASE LastSelected.type = "Key" ->
           /\ keyboard[last.event.code] =
                SubstituteWildcard(LastSelected.KeyCombo, last.event.code)
           /\ currentLayer = last.layer
           /\ toggleLayerKeys = last.keys
      [] LastSelected.type = "Layer" ->
           /\ currentLayer = FindLayer(last.config, LastSelected.Layer)
           /\ toggleLayerKeys = <<>>
           /\ keyboard[last.event.code] = NoCombo
      [] OTHER ->
           /\ currentLayer = last.layer
           /\ toggleLayerKeys = last.keys
           /\ keyboard[last.event.code] = NoCombo
           /\ mouse.buttons[last.event.code] = NoButton

\* C15 witness: 44 carries TapHold{tap: Key[30], hold: Layer(nav)}; it was
\* pressed with holdKey set, nav is current and no key was emitted
C15_Witness ==
  /\ LastPress
  /\ last.event.code = 44
  /\ last.event.holdKey
  /\ last.binding = TapHoldBinding(KeyBinding(<<30>>), LayerBinding("nav"))
  /\ Name(currentLayer) = "nav"
  /\ keyboard[44] = NoCombo

\* C16: a press that executes a Key binding calls PressKeys(c, keys) with
\* keys the binding's combo in which every wildcard is replaced by the pressed
\* code c and every other position is unchanged; the combo stored in the
\* binding is not modified
C16_WildcardSubstitutedInCopy ==
  /\ \A combo \in KeyCombos : keyCombos[combo] = combo
  /\ (LastPress /\ LastResolved.type = "Key") =>
       /\ Len(keyboard[last.event.code]) = Len(LastResolved.KeyCombo)
       /\ \A i \in 1..Len(LastResolved.KeyCombo) :
            keyboard[last.event.code][i] =
              IF LastResolved.KeyCombo[i] = WildcardKey
              THEN last.event.code
              ELSE LastResolved.KeyCombo[i]

\* C16 witness: two different codes were pressed through the same wildcard
\* binding Key[29, wildcard], each holds the combo with its own code
C16_Witness ==
  /\ LastPress
  /\ last.binding = KeyBinding(<<29, WildcardKey>>)
  /\ LayerOf(last.layer).WildcardBinding = last.binding
  /\ keyboard[last.event.code] = <<29, last.event.code>>
  /\ \E c \in Keys \ {last.event.code} : keyboard[c] = <<29, c>>

\* a step in which the main loop takes the event at the head of the channel
EventStep == outChannel # <<>> /\ outChannel' = Tail(outChannel)

\* s is t or a proper prefix of t
IsPrefix(s, t) == Len(s) <= Len(t) /\ s = SubSeq(t, 1, Len(s))

\* C17: handling a release calls neither PressKeys nor ButtonPress, pushes
\* nothing on the momentary stack and executes no Layer switch and no reload:
\* its only changes are the pop of the stack and OriginalKeyUp on both
\* devices; a press that stands for a Move, Scroll or Speed binding leaves
\* currentLayer, the stack and the keys and buttons of both devices unchanged
C17_ReleaseAndMotionBindingsInert ==
  [][EventStep =>
       LET e == Head(outChannel) IN
       /\ ~e.isPress =>
            /\ alive' /\ config' = config /\ keyCombos' = keyCombos
            /\ keyboard' = [keyboard EXCEPT ![e.code] = NoCombo]
            /\ mouse'.buttons = [mouse.buttons EXCEPT ![e.code] = NoButton]
            /\ IsPrefix(toggleLayerKeys', toggleLayerKeys)
            /\ IsPrefix(toggleLayerPrevious', toggleLayerPrevious)
            /\ (toggleLayerKeys' = toggleLayerKeys => currentLayer' = currentLayer)
            /\ (toggleLayerKeys' # toggleLayerKeys =>
                  currentLayer' = toggleLayerPrevious[Len(toggleLayerKeys') + 1])
       /\ (e.isPress /\ Resolve(last'.binding, e).type \in {"Move", "Scroll", "Speed"}) =>
            /\ alive' /\ config' = config /\ keyCombos' = keyCombos
            /\ currentLayer' = currentLayer
            /\ toggleLayerKeys' = toggleLayerKeys
            /\ toggleLayerPrevious' = toggleLayerPrevious
            /\ keyboard' = keyboard
            /\ mouse'.buttons = mouse.buttons]_vars

\* C17 witness: a key was released on a layer that binds it to a Key binding;
\* the combo it owned is released and nothing is pressed
C17_Witness ==
  /\ LastRelease
  /\ last.binding.type = "Key"
  /\ last.owned
  /\ keyboard[last.event.code] = NoCombo
  /\ toggleLayerKeys = last.keys

\* the ToggleLayer bindings the last press executed, in order, when it
\* executed nothing else
LastToggles ==
  IF LastResolved.type = "ToggleLayer" THEN <<LastResolved>>
  ELSE IF /\ LastResolved.type = "Multi"
          /\ \A i \in 1..Len(LastResolved.Bindings) :
               LastResolved.Bindings[i].type = "ToggleLayer"
       THEN LastResolved.Bindings
       ELSE <<>>

\* the stacks and the current layer after the pushes of a list of ToggleLayer
\* bindings by one key: each binding that names a layer of the config records
\* the key and the layer current right before it, then makes its layer current
RECURSIVE AfterPushes(_, _, _)
AfterPushes(toggles, code, st) ==
  IF toggles = <<>> THEN st
  ELSE LET layer == FindLayer(last.config, Head(toggles).Layer) IN
       AfterPushes(Tail(toggles), code,
                   IF layer = NoLayer THEN st
                   ELSE [cur |-> layer, keys |-> Append(st.keys, code),
                         prev |-> Append(st.prev, st.cur)])

\* C18: toggleLayerKeys and toggleLayerPrevious always have the same length,
\* and a push records with the key the layer that was current right before it
C18_ParallelStacks ==
  /\ Len(toggleLayerKeys) = Len(toggleLayerPrevious)
  /\ (LastPress /\ LastToggles # <<>>) =>
       [cur |-> currentLayer, keys |-> toggleLayerKeys, prev |-> toggleLayerPrevious]
         = AfterPushes(LastToggles, last.event.code,
                       [cur |-> last.layer, keys |-> last.keys, prev |-> last.prev])
  /\ LastRelease =>
       \/ toggleLayerKeys = last.keys /\ toggleLayerPrevious = last.prev
       \/ \E n \in 0..(Len(last.keys) - 1) :
            /\ toggleLayerKeys = SubSeq(last.keys, 1, n)
            /\ toggleLayerPrevious = SubSeq(last.prev, 1, n)
  /\ LayerSwitch => (toggleLayerKeys = <<>> /\ toggleLayerPrevious = <<>>)

\* C18 witness: 59 executed Multi[ToggleLayer(L1), ToggleLayer(L2)] on L0; the
\* stack holds 59 twice, with L0 and then L1 as the layers to go back to
C18_Witness ==
  /\ LastPress
  /\ last.binding.type = "Multi"
  /\ toggleLayerKeys = <<59, 59>>
  /\ Len(toggleLayerPrevious) = 2
  /\ Name(toggleLayerPrevious[1]) = "L0"
  /\ Name(toggleLayerPrevious[2]) = "L1"
  /\ Name(currentLayer) = "L2"

\* the pressed keys that layer l binds, by an entry of its Bindings map, to a
\* binding that is itself of the given type
DirectlyBound(l, isPressed, type) ==
  {c \in isPressed : c \in DOMAIN LayerOf(l).Bindings
                     /\ LayerOf(l).Bindings[c].type = type}

\* C20: the accumulation of an iteration counts exactly the bindings that are
\* directly Move, Scroll or Speed under the code of a physically held key in
\* currentLayer.Bindings; a wildcard binding and a binding nested in TapHold
\* or Multi contribute nothing, and Speed bindings alone do not cause Move or
\* Scroll to be called
C20_OnlyDirectExactBindingsCount ==
  [][IterationStep =>
       LET l == currentLayer'
           moves == DirectlyBound(l, pressed, "Move")
           scrolls == DirectlyBound(l, pressed, "Scroll")
           speeds == DirectlyBound(l, pressed, "Speed")
       IN /\ last'.acc.moveX = SumOver(moves, [c \in moves |-> LayerOf(l).Bindings[c].X])
          /\ last'.acc.moveY = SumOver(moves, [c \in moves |-> LayerOf(l).Bindings[c].Y])
          /\ last'.acc.scrollX = SumOver(scrolls, [c \in scrolls |-> LayerOf(l).Bindings[c].X])
          /\ last'.acc.scrollY = SumOver(scrolls, [c \in scrolls |-> LayerOf(l).Bindings[c].Y])
          /\ last'.acc.speedFactor =
               ProductOver(speeds, [c \in speeds |-> LayerOf(l).Bindings[c].Speed])
          /\ (moves = {} /\ scrolls = {} /\ mouse.velocity = 0) =>
               (~last'.moved /\ ~last'.scrolled /\ mouseTimer' = "inf")]_vars

\* C20 witness: on a layer with a wildcard Move binding, a key without an
\* entry, a key bound to TapHold{Move, ..}, a key bound to Multi[Move, ..] and
\* a key bound to Speed are all held; nothing but the speed factor was
\* accumulated and the loop parked without calling Move
C20_Witness ==
  /\ last.by = "event"
  /\ outChannel = <<>>
  /\ pressed = Keys
  /\ LayerOf(currentLayer).WildcardBinding = MoveBinding(0, 1)
  /\ Bindings(currentLayer, 44).type = "TapHold"
  /\ Bindings(currentLayer, 59).type = "Multi"
  /\ last.acc = [moveX |-> 0, moveY |-> 0, scrollX |-> 0, scrollY |-> 0,
                 speedFactor |-> 2]
  /\ ~last.moved
  /\ mouseTimer = "inf"

(* --------------------------------- C11 -------------------------------- *)
\* the last step of the device was a failed open attempt by ReadLoop
LastOpenFailed == devLast.attempt = "failed"

\* C11 (as stated): a failed open attempt made while the state is NotOpen is
\* logged at warn level, and a failed attempt made while the state is already
\* OpenFailed is logged at debug level.
C11_FirstFailureWarnThenDebug ==
  LastOpenFailed =>
    devLast.level = (IF devLast.from = StateNotOpen THEN "warn" ELSE "debug")

(* --------------------------------- C12 -------------------------------- *)
\* a read on the open device has failed and ReadLoop has made no open attempt
\* since
ReadFailurePending == devLast.readFail = "pending"

\* C12 (amended): after a read on an open device fails, the state is NotOpen
\* and the reader has left its read loop, but the last error string is not
\* touched: LastOpenError() still returns what it returned before the read
\* failure, the text of the last failed open or grab, or the empty string.
C12_ReadFailureKeepsLastOpenError ==
  ReadFailurePending =>
    /\ devState = StateNotOpen
    /\ ~IsOpen
    /\ readers.loop + readers.reading = 0
    /\ LastOpenError = devLast.errBefore
    /\ LastOpenError \in {"", "open failed", "grab failed"}

\* a read failed on a device that was opened after a failed open attempt, and
\* the reader has returned
C12_Witness ==
  /\ ReadFailurePending
  /\ readers.returning = 0
  /\ LastOpenError # ""

\* C12 (as stated): after a read failure the state is NotOpen, the reader
\* ends, and LastOpenError() returns the text of the read failure.
C12_ReadFailureRecorded ==
  ReadFailurePending =>
    /\ devState = StateNotOpen
    /\ readers.loop + readers.reading = 0
    /\ LastOpenError = "read failed"

(* --------------------------------- C13 -------------------------------- *)
\* the device is open and a reader is in its read loop
OpenWithReader == IsOpen /\ readers.loop + readers.reading = 1

\* C13: under fair scheduling of ReadLoop and its ticker, and with no more
\* than MaxOpenFailures failed opens in a row, a device that is not Open
\* (never opened, failed to open, or set to NotOpen by a read failure) is
\* eventually Open again with a new reader started.
C13_EventuallyOpenAgain == (~IsOpen) ~> OpenWithReader

\* the device is open again with a new reader after a read failure that was
\* followed by at least one failed open attempt
C13_Witness ==
  /\ OpenWithReader
  /\ devLast.attempt = "ok"
  /\ devLast.afterRead = "retried"

(* --------------------------------- C14 -------------------------------- *)
\* a key press or a key release
IsKeyPressOrRelease(event) == event.Type = EV_KEY /\ event.Value \in {0, 1}

\* the key presses and releases among the input events read so far
ForwardedInput == SelectSeq(input, IsKeyPressOrRelease)

\* C14: the Events sent on the event channel are exactly the input events of
\* type EV_KEY with value 0 or 1, in the order read, each with the same code
\* and IsPress = (value = 1); autorepeat and non-key events are not forwarded.
C14_PublishedIsFilteredInput ==
  /\ Len(eventChan) = Len(ForwardedInput)
  /\ \A i \in 1..Len(eventChan) :
       /\ eventChan[i].Code = ForwardedInput[i].Code
       /\ eventChan[i].IsPress = (ForwardedInput[i].Value = 1)

\* an autorepeat key event and a key press or release have both been read
C14_Witness ==
  /\ \E i \in 1..Len(input) : input[i].Type = EV_KEY /\ input[i].Value = 2
  /\ eventChan # <<>>

(* --------------------------------- C19 -------------------------------- *)
\* readKeyboard tasks that have not left their read loop
ActiveReaders == readers.loop + readers.reading

\* C19: under every interleaving of ReadLoop, the readers and read failures,
\* at most one readKeyboard task is in its read loop; while the state is not
\* Open (the only time ReadLoop calls openDevice), and when ReadLoop is about
\* to start a reader, no earlier reader is in its read loop, any earlier one
\* having set the state and being on its way out; and the state is Open only
\* while the reader of this open is in its read loop or about to be started.
C19_AtMostOneReader ==
  /\ ActiveReaders <= 1
  /\ ~IsOpen => ActiveReaders = 0
  /\ loopPc = "spawn" => IsOpen /\ ActiveReaders = 0
  /\ IsOpen => (ActiveReaders = 1 /\ loopPc # "spawn")
               \/ (ActiveReaders = 0 /\ loopPc = "spawn")

\* a new reader is in its read loop while the previous one, which set the
\* state to NotOpen, has not yet returned
C19_Witness ==
  /\ ActiveReaders = 1
  /\ readers.returning = 1
  /\ IsOpen

=============================================================================
